---- MODULE Spec2Model ----
(***************************************************************************)
(* Model of the Student Learning Resource Platform API (src/main.py).      *)
(*                                                                         *)
(* Text values are sequences of one-character strings, so that the         *)
(* case-insensitive regular-expression search of the listing endpoint and  *)
(* the parsing of identifiers can be computed character by character.      *)
(* A JSON null / Python None is the value Null.  A request body is a       *)
(* function from the keys the client submitted to their values.  A stored  *)
(* document is a function from its keys to their values, as a dict.        *)
(***************************************************************************)
EXTENDS Integers, Sequences, FiniteSets, TLC

VARIABLES
    dbState,    \* what "from database import ..." yields in this process
    store,      \* the studyasset collection, in insertion order
    clock,      \* the store-resolution wall clock read by create_document
    pc,         \* position of each in-flight like call
    target,     \* the path parameter of each in-flight like call
    startLikes, \* history: likes of the target when the like call began
    others,     \* history: updates by other like calls on the target since then
    submitted,  \* history: the body each stored document was created from
    okLikes,    \* history: like calls answered 200, per stored document
    lostLikes,  \* history: like calls answered 500 after their update, per document
    req,        \* the request answered last
    resp        \* the response to it

vars == <<dbState, store, clock, pc, target, startLikes, others, submitted, okLikes, lostLikes,
          req, resp>>

(* ------------------------------ bounds -------------------------------- *)
MaxDocs == 2      \* documents created in a behaviour
MaxLikes == 2     \* likes a document receives in a behaviour
MaxClock == 1     \* clock ticks in a behaviour
MaxColl == 11     \* collections of the database besides studyasset
NumClients == 2   \* like calls in flight at once
LikeDocs == 1     \* documents created in the like scenarios

Clients == 1..NumClients

(* ------------------------------ values -------------------------------- *)
Null == <<"None">>
NoOid == <<>>

\* The states of the database module (not part of src/): the module file is
\* absent, importing it raises, it loads with db = None, or it loads with a
\* store handle.  A handle connects lazily: each operation on it either
\* answers or raises (the parameter ok of the handlers below).
DbStates == {"missing", "import_raises", "uninit", "connected"}

ImportFails(s) == s \in {"missing", "import_raises"}
DbIsNone(s) == s = "uninit"

(* ------------------------- bson.ObjectId ------------------------------ *)
IdLen == 24

HexLower == <<"0", "1", "2", "3", "4", "5", "6", "7", "8", "9", "a", "b", "c", "d", "e", "f">>
HexUpper == <<"0", "1", "2", "3", "4", "5", "6", "7", "8", "9", "A", "B", "C", "D", "E", "F">>

IsHex(c) == \E v \in 1..16 : HexLower[v] = c \/ HexUpper[v] = c

\* The value of a hexadecimal digit (0 stands in for a character that is
\* none: the parse is applied to valid texts only).
HexVal(c) == IF IsHex(c) THEN (CHOOSE v \in 1..16 : HexLower[v] = c \/ HexUpper[v] = c) - 1 ELSE 0

\* The six ASCII whitespace characters bytes.fromhex skips between two
\* bytes: space, tab, line feed, vertical tab, form feed, carriage return.
VerticalTab == ""
IsSpace(c) == c \in {" ", "\t", "\n", VerticalTab, "\f", "\r"}

\* bytes.fromhex(s) from position i on: whitespace is skipped between
\* bytes, and a byte is two adjacent hexadecimal digits.
RECURSIVE FromHexOk(_, _)
FromHexOk(s, i) ==
    IF i > Len(s) THEN TRUE
    ELSE IF IsSpace(s[i]) THEN FromHexOk(s, i + 1)
    ELSE IF IsHex(s[i]) /\ i + 1 <= Len(s) /\ IsHex(s[i + 1]) THEN FromHexOk(s, i + 2)
    ELSE FALSE

ObjectIdValidLengthOnly(s) == Len(s) = IdLen

\* ObjectId(resource_id) raises unless the text has 24 characters and
\* bytes.fromhex accepts it.
ObjectIdValid(s) == Len(s) = IdLen /\ FromHexOk(s, 1)

\* The identifier ObjectId(resource_id) holds: the values of the digits of
\* bytes.fromhex(s) (fewer than 24 when s holds whitespace).
ObjectIdParse(s) ==
    LET digits == SelectSeq(s, IsHex)
    IN  [i \in 1..Len(digits) |-> HexVal(digits[i])]

\* str(oid): the identifier's digits in lower case.
ObjectIdStr(oid) == [i \in 1..Len(oid) |-> HexLower[oid[i] + 1]]

\* The identifier the store assigns to the n-th inserted document.
NewOid(n) == [i \in 1..IdLen |-> IF i = IdLen THEN 9 + n ELSE 0]

(* ------------------------- documents ---------------------------------- *)
ModelFields == {"title", "description", "subject", "class_", "exam", "year",
                "file_url", "thumbnail_url", "type", "uploader_id"}

RequiredFields == {"title", "file_url"}

\* Pydantic validation of the body against CreateResource: a required
\* field must be present and a string.  Unknown keys are ignored.
PayloadValid(p) == \A k \in RequiredFields : k \in DOMAIN p /\ p[k] # Null

\* The key under which model_dump(by_alias=True) emits field k, which is
\* also the key the field is read from: no field of CreateResource
\* declares an alias.
DumpKey(k) == k

\* payload.model_dump(by_alias=True)
ModelDump(p) ==
    [k \in {DumpKey(f) : f \in ModelFields} |->
        LET f == CHOOSE g \in ModelFields : DumpKey(g) = k
        IN  IF f \in DOMAIN p THEN p[f] ELSE Null]

\* likes of a new document
InitialLikes == 0

\* create_document("studyasset", data): the document the store holds.
NewDocument(data, oid, now) ==
    [k \in DOMAIN data \cup {"_id", "likes", "created_at"} |->
        IF k = "_id" THEN oid
        ELSE IF k = "likes" THEN InitialLikes
        ELSE IF k = "created_at" THEN now
        ELSE data[k]]

\* serialize_doc: "_id" is renamed to "id" and rendered as text.
serialize_doc(doc) ==
    [k \in (DOMAIN doc \ {"_id"}) \cup (IF "_id" \in DOMAIN doc THEN {"id"} ELSE {}) |->
        IF k = "id" /\ "_id" \in DOMAIN doc THEN ObjectIdStr(doc["_id"]) ELSE doc[k]]

\* Positions of the documents whose _id is oid.
Matching(oid) == {i \in 1..Len(store) : store[i]["_id"] = oid}

FindOneUnfiltered(oid) == IF store = <<>> THEN 0 ELSE 1

\* find_one({"_id": oid}): a position, or 0 for None.
FindOne(oid) == IF Matching(oid) = {} THEN 0 ELSE CHOOSE i \in Matching(oid) : TRUE

IncLikesDown(doc) == [doc EXCEPT !["likes"] = @ - 1]
IncLikesSet(doc) == [doc EXCEPT !["likes"] = 1]
IncLikesNone(doc) == doc

\* {"$inc": {"likes": 1}} applied to one document.
IncLikes(doc) == [doc EXCEPT !["likes"] = @ + 1]

(* ------------------------- responses ---------------------------------- *)
Response(status, body) == [status |-> status, body |-> body]
HttpError(status, detail) == [status |-> status, body |-> [detail |-> detail]]

NoReq == [op |-> "none"]

Init ==
    /\ dbState \in DbStates
    /\ store = <<>>
    /\ clock = 0
    /\ pc = [c \in Clients |-> "idle"]
    /\ target = [c \in Clients |-> NoOid]
    /\ startLikes = [c \in Clients |-> -1]
    /\ others = [c \in Clients |-> 0]
    /\ submitted = <<>>
    /\ okLikes = <<>>
    /\ lostLikes = <<>>
    /\ req = NoReq
    /\ resp = Response(0, <<>>)

(* ------------------------- POST /api/resources ------------------------ *)
\* ok: the store's insert answers (it raises otherwise).
create_resource(p, ok) ==
    /\ req' = [op |-> "create", payload |-> p]
    /\ UNCHANGED <<dbState, clock, pc, target, startLikes, others>>
    /\ IF ~PayloadValid(p)
       THEN /\ resp' = HttpError(422, "validation")
            /\ UNCHANGED <<store, submitted, okLikes, lostLikes>>
       ELSE IF ImportFails(dbState) \/ DbIsNone(dbState) \/ ~ok
       THEN /\ resp' = HttpError(500, IF ImportFails(dbState) \/ DbIsNone(dbState)
                                      THEN "store" ELSE "store raised")
            /\ UNCHANGED <<store, submitted, okLikes, lostLikes>>
       ELSE LET oid == NewOid(Len(store) + 1)
            IN  /\ store' = Append(store, NewDocument(ModelDump(p), oid, clock))
                /\ submitted' = Append(submitted, p)
                /\ okLikes' = Append(okLikes, 0)
                /\ lostLikes' = Append(lostLikes, 0)
                /\ resp' = Response(200, [id |-> ObjectIdStr(oid)])

(* ------------------------- GET /api/resources/{id} -------------------- *)
\* ok: find_one answers (it raises otherwise).
get_resource(rid, ok) ==
    /\ req' = [op |-> "get", id |-> rid]
    /\ UNCHANGED <<dbState, store, clock, pc, target, startLikes, others, submitted,
                   okLikes, lostLikes>>
    /\ IF ImportFails(dbState) THEN resp' = HttpError(500, "import")
       ELSE IF DbIsNone(dbState) THEN resp' = HttpError(500, "Database not configured")
       ELSE IF ~ObjectIdValid(rid) THEN resp' = HttpError(400, "Invalid id")
       ELSE IF ~ok THEN resp' = HttpError(500, "store raised")
       ELSE LET i == FindOne(ObjectIdParse(rid))
            IN  IF i = 0 THEN resp' = HttpError(404, "Resource not found")
                ELSE resp' = Response(200, serialize_doc(store[i]))

(* ------------------------- POST /api/resources/{id}/like -------------- *)
\* likes of the document with identifier oid, -1 when there is none
LikesOf(oid) == IF FindOne(oid) = 0 THEN -1 ELSE store[FindOne(oid)]["likes"]

LikeReq(c) == [op |-> "like", id |-> target[c], start |-> startLikes[c],
               others |-> others[c], client |-> c]

\* The handler up to its first store operation: the import, the check of
\* the handle and the parsing of the path parameter.
like_begin(c, rid) ==
    /\ pc[c] = "idle"
    /\ UNCHANGED <<dbState, store, clock, submitted, okLikes, lostLikes>>
    /\ IF ImportFails(dbState) \/ DbIsNone(dbState) \/ ~ObjectIdValid(rid)
       THEN /\ req' = [op |-> "like", id |-> rid, start |-> -1, others |-> 0, client |-> c]
            /\ resp' = IF ImportFails(dbState) THEN HttpError(500, "import")
                       ELSE IF DbIsNone(dbState) THEN HttpError(500, "Database not configured")
                       ELSE HttpError(400, "Invalid id")
            /\ UNCHANGED <<pc, target, startLikes, others>>
       ELSE /\ pc' = [pc EXCEPT ![c] = "update"]
            /\ target' = [target EXCEPT ![c] = rid]
            /\ startLikes' = [startLikes EXCEPT ![c] = LikesOf(ObjectIdParse(rid))]
            /\ others' = [others EXCEPT ![c] = 0]
            /\ UNCHANGED <<req, resp>>

\* The like call of c ends with the response r.
LikeAnswer(c, r) ==
    /\ req' = LikeReq(c)
    /\ resp' = r
    /\ pc' = [pc EXCEPT ![c] = "idle"]
    /\ target' = [target EXCEPT ![c] = NoOid]
    /\ startLikes' = [startLikes EXCEPT ![c] = -1]
    /\ others' = [others EXCEPT ![c] = 0]

\* update_one({"_id": oid}, {"$inc": {"likes": 1}}): one atomic store step.
\* ok: update_one answers (it raises otherwise, and nothing is written).
like_update(c, ok) ==
    /\ pc[c] = "update"
    /\ UNCHANGED <<dbState, clock, submitted, okLikes, lostLikes>>
    /\ LET i == FindOne(ObjectIdParse(target[c]))
       IN  IF ~ok
           THEN LikeAnswer(c, HttpError(500, "store raised")) /\ UNCHANGED store
           ELSE IF i = 0
           THEN LikeAnswer(c, HttpError(404, "Resource not found")) /\ UNCHANGED store
           ELSE /\ store' = [store EXCEPT ![i] = IncLikes(@)]
                /\ pc' = [pc EXCEPT ![c] = "fetch"]
                /\ others' = [d \in Clients |->
                                 IF d # c /\ pc[d] # "idle" /\ startLikes[d] >= 0
                                     /\ ObjectIdParse(target[d]) = ObjectIdParse(target[c])
                                 THEN others[d] + 1 ELSE others[d]]
                /\ UNCHANGED <<target, startLikes, req, resp>>

\* find_one({"_id": oid}) and the response.
\* ok: find_one answers (it raises otherwise: the update stays applied).
like_fetch(c, ok) ==
    /\ pc[c] = "fetch"
    /\ UNCHANGED <<dbState, store, clock, submitted>>
    /\ LET i == FindOne(ObjectIdParse(target[c]))
       IN  IF ~ok
           THEN /\ LikeAnswer(c, HttpError(500, "store raised"))
                /\ lostLikes' = IF i = 0 THEN lostLikes ELSE [lostLikes EXCEPT ![i] = @ + 1]
                /\ UNCHANGED okLikes
           ELSE /\ LikeAnswer(c, Response(200, IF i = 0 THEN <<>> ELSE serialize_doc(store[i])))
                /\ okLikes' = IF i = 0 THEN okLikes ELSE [okLikes EXCEPT ![i] = @ + 1]
                /\ UNCHANGED lostLikes

(* ------------------------- GET /api/resources ------------------------- *)
DefaultLimit == 24

\* Python truthiness of an optional query parameter: None and "" are false.
Truthy(v) == v # Null /\ v # <<>>

\* Lower case of a character (of the letters used here: A to F).
Lower(ch) ==
    IF \E v \in 11..16 : HexUpper[v] = ch
    THEN HexLower[CHOOSE v \in 11..16 : HexUpper[v] = ch]
    ELSE ch

\* The store rejects a pattern that is not a regular expression
\* (here: an unclosed group).
RegexValid(pat) == \A j \in 1..Len(pat) : pat[j] # "("

\* One pattern character against one text character, under option "i":
\* "." matches any character.
CharMatches(pc1, ch) == pc1 = "." \/ Lower(pc1) = Lower(ch)

\* {"$regex": pat, "$options": "i"} on a field value: an unanchored search.
\* A null field never matches.
RegexSearch(pat, v) ==
    /\ v # Null
    /\ \E i \in 0..(Len(v) - Len(pat)) :
          \A j \in 1..Len(pat) : CharMatches(pat[j], v[i + j])

SearchFields == {"title", "description", "subject", "exam", "year"}

\* The keys of filter_query.
FilterKeys(q, subject, type) ==
    (IF Truthy(q) THEN {"$or"} ELSE {})
        \cup (IF Truthy(subject) THEN {"subject"} ELSE {})
        \cup (IF Truthy(type) THEN {"type"} ELSE {})

\* Whether a document satisfies filter_query: its keys combine with AND.
Match(doc, q, subject, type) ==
    \A k \in FilterKeys(q, subject, type) :
        IF k = "$or" THEN \E f \in SearchFields : f \in DOMAIN doc /\ RegexSearch(q, doc[f])
        ELSE IF k = "subject" THEN "subject" \in DOMAIN doc /\ doc["subject"] = subject
        ELSE "type" \in DOMAIN doc /\ doc["type"] = type

Found(q, subject, type) == {i \in 1..Len(store) : Match(store[i], q, subject, type)}

\* Sort key of .sort("created_at", -1): a missing or null value sorts
\* below every timestamp.
SortKey(doc) == IF "created_at" \in DOMAIN doc THEN doc["created_at"] ELSE -1

\* The orders .sort("created_at", -1) may produce of the documents at the
\* positions S: the order among equal keys is the store's choice.
SortedDesc(S) ==
    {s \in [1..Cardinality(S) -> S] :
        /\ \A a, b \in 1..Cardinality(S) : a # b => s[a] # s[b]
        /\ \A a, b \in 1..Cardinality(S) : a < b => SortKey(store[s[a]]) >= SortKey(store[s[b]])}

Abs(n) == IF n < 0 THEN -n ELSE n
Min(a, b) == IF a < b THEN a ELSE b

LimitIgnored(s, n) == s

\* cursor.limit(n): 0 is no limit, a negative n limits to -n.
Limit(s, n) == IF n = 0 THEN s ELSE SubSeq(s, 1, Min(Abs(n), Len(s)))

\* limit is DefaultLimit when the query string has none.
\* ok: find answers (it raises otherwise).
list_resources(q, subject, type, limit, ok) ==
    LET n == limit
    IN  /\ req' = [op |-> "list", q |-> q, subject |-> subject, type |-> type, limit |-> limit]
        /\ UNCHANGED <<dbState, store, clock, pc, target, startLikes, others, submitted,
                       okLikes, lostLikes>>
        /\ IF ImportFails(dbState) THEN resp' = HttpError(500, "import")
           ELSE IF DbIsNone(dbState) THEN resp' = HttpError(500, "Database not configured")
           ELSE IF ~ok THEN resp' = HttpError(500, "store raised")
           ELSE IF Truthy(q) /\ ~RegexValid(q) THEN resp' = HttpError(500, "regex")
           ELSE \E s \in SortedDesc(Found(q, subject, type)) :
                   LET t == Limit(s, n)
                   IN  resp' = Response(200, [items |-> [j \in 1..Len(t) |-> serialize_doc(store[t[j]])]])

(* ------------------------- GET /test ---------------------------------- *)
MaxListed == 10

FirstTenUncut(names) == names

\* collections[:10]
FirstTen(names) == SubSeq(names, 1, Min(MaxListed, Len(names)))

\* db.list_collection_names(): the studyasset collection exists once a
\* document was inserted; n other collections are numbered 1..n.
ListCollectionNames(n) == (IF Len(store) > 0 THEN <<0>> ELSE <<>>) \o [i \in 1..n |-> i]

EnvFlag(set) == IF set THEN "Set" ELSE "Not Set"

\* connection_status after the try block
ConnectionStatus(s) == IF ImportFails(s) \/ DbIsNone(s) THEN "Not Connected" ELSE "Connected"

\* response["database"] after the try block; ok: list_collection_names
\* answers.
DatabaseText(s, ok) ==
    IF s = "missing" THEN "Database module not found"
    ELSE IF s = "import_raises" THEN "Error"
    ELSE IF s = "uninit" THEN "Available but not initialized"
    ELSE IF ~ok THEN "Connected but Error"
    ELSE "Connected & Working"

\* ok: db.list_collection_names() answers (it raises otherwise).
test_database(urlSet, nameSet, n, ok) ==
    /\ req' = [op |-> "test", n |-> n, ok |-> ok]
    /\ resp' = Response(200,
           [backend |-> "Running",
            database |-> DatabaseText(dbState, ok),
            database_url |-> EnvFlag(urlSet),
            database_name |-> EnvFlag(nameSet),
            connection_status |-> ConnectionStatus(dbState),
            collections |-> IF dbState = "connected" /\ ok
                            THEN FirstTen(ListCollectionNames(n)) ELSE <<>>])
    /\ UNCHANGED <<dbState, store, clock, pc, target, startLikes, others, submitted,
                   okLikes, lostLikes>>

\* Time passes between two requests.
Tick ==
    /\ clock < MaxClock
    /\ clock' = clock + 1
    /\ UNCHANGED <<dbState, store, pc, target, startLikes, others, submitted, okLikes, lostLikes,
                   req, resp>>

(* ------------------------- inputs ------------------------------------- *)
Zeros23 == [i \in 1..(IdLen - 1) |-> "0"]
IdOf(c) == Zeros23 \o <<c>>

\* 24 characters: bytes of two digits, each followed by a blank.
SpacedId == [i \in 1..IdLen |-> IF i % 3 = 0 THEN " " ELSE "0"]

\* 24 characters: single digits, each followed by a blank.
HalvesId == [i \in 1..IdLen |-> IF i % 2 = 0 THEN " " ELSE "0"]

\* 24 characters: eight bytes, each followed by a vertical tab.
VtId == [i \in 1..IdLen |-> IF i % 3 = 0 THEN VerticalTab ELSE "0"]

\* Path parameters: the identifiers of the first two documents in lower
\* and upper case, a well-formed identifier no document has, a text with a
\* character that is no hexadecimal digit, a text that is too short, and
\* texts of 24 characters that hold whitespace.
IdStrings ==
    {IdOf(c) : c \in {"a", "A", "b", "f", "g"}} \cup {<<"a">>, SpacedId, HalvesId, VtId}

BasePayload == [title |-> <<"a", "b">>, file_url |-> <<"u">>]

\* p with the entries of extra added
With(p, extra) == [k \in DOMAIN p \cup DOMAIN extra |-> IF k \in DOMAIN extra THEN extra[k] ELSE p[k]]

\* p without key k
Without(p, k) == [j \in DOMAIN p \ {k} |-> p[j]]

\* Bodies for the creation endpoint: every optional field of the public
\* interface submitted once, a null optional field, an empty title, a null
\* title, and bodies lacking a required field.
CreatePayloads ==
    {BasePayload,
     With(BasePayload, [description |-> <<"b">>, subject |-> <<"a">>]),
     With(BasePayload, [exam |-> <<"a">>, year |-> <<"b">>, type |-> <<"a">>]),
     With(BasePayload, [thumbnail_url |-> <<"u">>, uploader_id |-> <<"a">>]),
     With(BasePayload, [class |-> <<"b">>]),
     With(BasePayload, [class_ |-> <<"b">>]),
     With(BasePayload, [description |-> Null]),
     With(BasePayload, [title |-> <<>>]),
     With(BasePayload, [title |-> Null]),
     Without(BasePayload, "title"),
     Without(BasePayload, "file_url")}

\* Bodies for the listing scenarios: documents that differ in the fields
\* the filter reads.
ListPayloads ==
    {BasePayload,
     With(BasePayload, [title |-> <<"A">>, subject |-> <<"a">>, type |-> <<"a">>]),
     With(BasePayload, [title |-> <<"b">>, subject |-> <<"b">>, type |-> <<"b">>, year |-> <<"a", "b">>])}

Queries == {Null, <<>>, <<"a">>, <<"A", "b">>, <<".">>, <<"b", ".">>, <<"(">>}
Subjects == {Null, <<>>, <<"a">>, <<"b">>}
Types == {Null, <<"a">>, <<"b">>}
Limits == {DefaultLimit, -1, 0, 1, 2}

\* Listing requests <<q, subject, type, limit>>: each parameter varied
\* alone, and the filters combined.
ListRequests ==
    {<<q, Null, Null, DefaultLimit>> : q \in Queries}
        \cup {<<Null, s, t, DefaultLimit>> : s \in Subjects, t \in Types}
        \cup {<<Null, Null, Null, lim>> : lim \in Limits}
        \cup {<<q, <<"a">>, <<"a">>, 1>> : q \in {<<"a">>, <<"b">>}}

\* Bounds of a behaviour
DocsBelow(n) == Len(store) < n
LikesBelow(n) == \A i \in 1..Len(store) : store[i]["likes"] < n

(* ------------------------- specifications ----------------------------- *)
\* The whole API, with one caller of the like endpoint.
Next ==
    \/ \E p \in {BasePayload, Without(BasePayload, "title")}, ok \in BOOLEAN :
          DocsBelow(MaxDocs) /\ create_resource(p, ok)
    \/ \E rid \in IdStrings, ok \in BOOLEAN : get_resource(rid, ok)
    \/ \E rid \in IdStrings : like_begin(1, rid)
    \/ \E ok \in BOOLEAN : LikesBelow(MaxLikes) /\ like_update(1, ok)
    \/ \E ok \in BOOLEAN : like_fetch(1, ok)
    \/ \E lim \in {DefaultLimit, 1}, ok \in BOOLEAN : list_resources(Null, Null, Null, lim, ok)

Spec == Init /\ [][Next]_vars

\* Concurrent callers of the like endpoint.
NextLike ==
    \/ DocsBelow(LikeDocs) /\ create_resource(BasePayload, TRUE)
    \/ \E c \in Clients, rid \in {IdOf("A"), IdOf("f")} : like_begin(c, rid)
    \/ \E c \in Clients, ok \in BOOLEAN : LikesBelow(MaxLikes) /\ like_update(c, ok)
    \/ \E c \in Clients, ok \in BOOLEAN : like_fetch(c, ok)

SpecLike == Init /\ [][NextLike]_vars

\* Creation and retrieval, over the creation bodies.
NextCreate ==
    \/ \E p \in CreatePayloads, ok \in BOOLEAN : DocsBelow(MaxDocs) /\ create_resource(p, ok)
    \/ \E rid \in IdStrings, ok \in BOOLEAN : get_resource(rid, ok)

SpecCreate == Init /\ [][NextCreate]_vars

\* Listing, over documents created at equal and at different times.
NextList ==
    \/ \E p \in ListPayloads : DocsBelow(MaxDocs) /\ create_resource(p, TRUE)
    \/ Tick
    \/ \E r \in ListRequests, ok \in BOOLEAN : list_resources(r[1], r[2], r[3], r[4], ok)

SpecList == Init /\ [][NextList]_vars

\* Diagnostics, with and without the studyasset collection.
NextTest ==
    \/ DocsBelow(MaxDocs) /\ create_resource(BasePayload, TRUE)
    \/ \E u \in BOOLEAN, d \in BOOLEAN, n \in 0..MaxColl, ok \in BOOLEAN :
          test_database(u, d, n, ok)

SpecTest == Init /\ [][NextTest]_vars

(* ======================== properties ================================== *)
Configured == ~ImportFails(dbState) /\ ~DbIsNone(dbState)

\* The optional and required fields of the public creation interface.
PublicFields == {"title", "description", "subject", "class", "exam", "year",
                 "file_url", "thumbnail_url", "type", "uploader_id"}

\* C1: a document fetched by the id its creation returned has likes 0 and
\* holds every submitted public field under the same name with the same
\* value.
C1_RoundTripPreservesFields ==
    (req.op = "get" /\ resp.status = 200) =>
        LET i == FindOne(ObjectIdParse(req.id))
        IN  /\ resp.body["likes"] = 0
            /\ \A k \in DOMAIN submitted[i] \cap PublicFields :
                  k \in DOMAIN resp.body /\ resp.body[k] = submitted[i][k]

InFlight(i) == {c \in Clients : pc[c] = "fetch" /\ ObjectIdParse(target[c]) = store[i]["_id"]}

\* C2 as stated: once no like call on a resource is between its update and
\* its answer, the stored likes are the initial likes plus the number of
\* like calls that were answered 200.
C2_LikesEqualSuccesses ==
    \A i \in 1..Len(store) :
        InFlight(i) = {} => store[i]["likes"] = InitialLikes + okLikes[i]

\* C2 amended: at every moment the stored likes of a resource are its
\* initial likes plus one for each like call whose update was applied:
\* those answered 200, those answered 500 because the re-fetch raised, and
\* those that have not answered yet.  No applied update is lost, whatever
\* the interleaving, and the likes are never below initial + successes.
C2_NoLostLike ==
    \A i \in 1..Len(store) :
        /\ store[i]["likes"] =
              InitialLikes + okLikes[i] + lostLikes[i] + Cardinality(InFlight(i))
        /\ store[i]["likes"] >= InitialLikes + okLikes[i]

\* C2 witness: of two like calls that raced on one resource (the second
\* updated it before the first answered) one was answered 200 and one 500,
\* and both updates are stored.
C2_Witness ==
    /\ Len(store) = 1 /\ store[1]["likes"] = 2
    /\ okLikes[1] = 1 /\ lostLikes[1] = 1
    /\ req.op = "like" /\ req.others = 1

\* A well-formed store identifier: 24 hexadecimal digits.
HexDigits == {"0", "1", "2", "3", "4", "5", "6", "7", "8", "9",
              "a", "b", "c", "d", "e", "f", "A", "B", "C", "D", "E", "F"}
WellFormed(rid) == Len(rid) = 24 /\ \A i \in 1..Len(rid) : rid[i] \in HexDigits

\* The texts the identifier parser takes without raising: 24 characters,
\* each a hexadecimal digit or whitespace, in which every maximal run of
\* digits has even length.
Blanks == {" ", "\t", "\n", "\f", "\r", ""}

RunEnd(rid, i) ==
    CHOOSE j \in i..Len(rid) :
        /\ \A k \in i..j : rid[k] \in HexDigits
        /\ j = Len(rid) \/ rid[j + 1] \notin HexDigits

Accepted(rid) ==
    /\ Len(rid) = 24
    /\ \A i \in 1..Len(rid) : rid[i] \in HexDigits \cup Blanks
    /\ \A i \in 1..Len(rid) :
          (rid[i] \in HexDigits /\ (i = 1 \/ rid[i - 1] \notin HexDigits)) =>
              (RunEnd(rid, i) - i + 1) % 2 = 0

\* The stored documents whose identifier reads rid, letter case ignored.
DocsWithId(rid) ==
    {i \in 1..Len(store) :
        /\ Len(ObjectIdStr(store[i]["_id"])) = Len(rid)
        /\ \A k \in 1..Len(rid) : Lower(ObjectIdStr(store[i]["_id"])[k]) = Lower(rid[k])}

\* A response the handlers give only when a store operation raised.
StoreRaised == resp.status = 500 /\ resp.body.detail = "store raised"

\* C3 as stated: a malformed id is answered 400 by GET and by like in
\* every state of the store, with the handle configured or not (the store
\* module itself loading).
C3_MalformedIs400Always ==
    (req.op \in {"get", "like"} /\ ~WellFormed(req.id) /\ ~ImportFails(dbState)) =>
        resp.status = 400

\* C3 amended: a text the identifier parser rejects is answered 400 by GET
\* and by like when the store handle is configured, and 500 when the store
\* module is unavailable or the handle unset; the step leaves the store
\* unchanged.  A text of 24 characters made of two-digit bytes and
\* whitespace is not well-formed, yet the parser takes it: with the handle
\* configured it is answered 404, or 500 when the store raises, never 400.
C3_MalformedIs400WhenConfigured ==
    /\ [](  (req.op \in {"get", "like"} /\ ~Accepted(req.id)) =>
                resp.status = IF Configured THEN 400 ELSE 500)
    /\ [](  (req.op \in {"get", "like"} /\ Accepted(req.id) /\ ~WellFormed(req.id)) =>
                IF Configured THEN resp.status = 404 \/ StoreRaised ELSE resp.status = 500)
    /\ [][ (req'.op \in {"get", "like"} /\ ~WellFormed(req'.id) /\ pc' = pc) =>
                store' = store ]_vars

C3_Witness ==
    /\ req.op = "like" /\ ~Accepted(req.id) /\ Len(req.id) = 24
    /\ Configured /\ resp.status = 400 /\ Len(store) > 0

\* C4 as stated: with the store configured, a well-formed id that no
\* document has is answered 404 by GET and by like.
C4_UnknownIdIs404Always ==
    (req.op \in {"get", "like"} /\ Configured /\ WellFormed(req.id)
        /\ DocsWithId(req.id) = {}) => resp.status = 404

\* C4 amended: with the store configured, a well-formed id that no document
\* has is answered 404 by GET and by like whenever the store operation
\* answers, and 500 when it raises; the step of a like call that ends it
\* without a matching document leaves every document as it was and
\* creates none.
C4_UnknownIdIs404 ==
    /\ [](  (req.op \in {"get", "like"} /\ Configured /\ WellFormed(req.id)
                /\ DocsWithId(req.id) = {}) => (resp.status = 404 \/ StoreRaised))
    /\ [][ \A c \in Clients :
              (pc[c] = "update" /\ pc'[c] # "update" /\ DocsWithId(target[c]) = {}) =>
                  /\ resp'.status = 404 \/ StoreRaised'
                  /\ req'.op = "like" /\ req'.id = target[c]
                  /\ store' = store ]_vars

C4_Witness ==
    /\ req.op = "like" /\ resp.status = 404 /\ Len(store) > 0
    /\ WellFormed(req.id) /\ DocsWithId(req.id) = {}

\* q occurs in v as a substring, letter case ignored
Contains(q, v) ==
    /\ v # Null
    /\ \E i \in 0..(Len(v) - Len(q)) : \A j \in 1..Len(q) : Lower(q[j]) = Lower(v[i + j])

\* C5: every listed document satisfies each filter that is present (given
\* and not empty): one of the five searched fields contains q as a
\* case-insensitive substring, subject equals the subject filter, type
\* equals the type filter.
C5_ListedSatisfyFilters ==
    (req.op = "list" /\ resp.status = 200) =>
        \A j \in 1..Len(resp.body.items) :
            LET d == resp.body.items[j]
            IN  /\ Truthy(req.q) => \E f \in SearchFields : Contains(req.q, d[f])
                /\ Truthy(req.subject) => d["subject"] = req.subject
                /\ Truthy(req.type) => d["type"] = req.type

\* C6 as stated: for every limit the listing holds at most limit items
\* (none for a limit below 0).
C6_AtMostLimitAlways ==
    (req.op = "list" /\ resp.status = 200) =>
        Len(resp.body.items) <= (IF req.limit < 0 THEN 0 ELSE req.limit)

\* C6 amended: the listed items are matching documents, without
\* repetition, in created_at descending order, and no omitted matching
\* document is newer than a listed one; for a limit of 1 or more there are
\* min(limit, matching) items, for limit 0 all matching documents are
\* listed, and for a negative limit min(-limit, matching).
C6_SortedAndTruncated ==
    (req.op = "list" /\ resp.status = 200) =>
        LET items == resp.body.items
            M == Found(req.q, req.subject, req.type)
            Listed == {i \in M : \E j \in 1..Len(items) : items[j] = serialize_doc(store[i])}
        IN  /\ Len(items) = (IF req.limit = 0 THEN Cardinality(M)
                             ELSE Min(Abs(req.limit), Cardinality(M)))
            /\ req.limit >= 1 => Len(items) <= req.limit
            /\ Cardinality(Listed) = Len(items)
            /\ \A a, b \in 1..Len(items) :
                  a < b => items[a]["created_at"] >= items[b]["created_at"]
            /\ \A i \in M \ Listed : \A j \in 1..Len(items) :
                  items[j]["created_at"] >= SortKey(store[i])

\* C6 witness: two matching documents of different age, limit 1, and the
\* newer one listed although it was inserted last.
C6_Witness ==
    /\ req.op = "list" /\ resp.status = 200 /\ req.limit = 1
    /\ Cardinality(Found(req.q, req.subject, req.type)) = 2
    /\ Len(resp.body.items) = 1
    /\ resp.body.items[1] = serialize_doc(store[2])
    /\ store[2]["created_at"] > store[1]["created_at"]

\* C7: the diagnostics endpoint answers 200 in every state of the store
\* module, also when listing the collections raises; connection_status is "Not Connected" exactly when the module is
\* absent, fails to import or has no handle; at most 10 collection names
\* are reported.
C7_DiagnosticsNeverFails ==
    req.op = "test" =>
        /\ resp.status = 200
        /\ resp.body.connection_status =
              (IF dbState \in {"missing", "import_raises", "uninit"}
               THEN "Not Connected" ELSE "Connected")
        /\ Len(resp.body.collections) <= MaxListed
        /\ ~req.ok => resp.body.collections = <<>>

\* C7 witness: a connected store with more than 10 collections, of which
\* 10 are reported.
C7_Witness ==
    /\ req.op = "test" /\ dbState = "connected" /\ req.ok
    /\ Len(ListCollectionNames(req.n)) > MaxListed
    /\ Len(resp.body.collections) = MaxListed

\* The likes of the stored resources change as C8 says a step may change
\* them: no step removes or replaces a stored resource, lowers its likes,
\* or changes them except by raising them by exactly 1 in the update step
\* of a like call on that resource.
LikesStep ==
    /\ Len(store') >= Len(store)
    /\ \A i \in 1..Len(store) :
          /\ store'[i]["_id"] = store[i]["_id"]
          /\ store'[i]["likes"] >= store[i]["likes"]
          /\ store'[i]["likes"] # store[i]["likes"] =>
                /\ store'[i]["likes"] = store[i]["likes"] + 1
                /\ \E c \in Clients :
                      /\ pc[c] = "update" /\ pc'[c] = "fetch"
                      /\ ObjectIdParse(target[c]) = store[i]["_id"]

\* C8 as stated: the likes of a resource never decrease and change only in
\* a successful like of that resource: every like call that changed the
\* likes is answered 200.
C8_LikesOnlyBySuccessfulLike ==
    [][ /\ LikesStep
        /\ \A c \in Clients :
              (pc[c] = "fetch" /\ pc'[c] # "fetch") =>
                  (req'.op = "like" /\ resp'.status = 200) ]_vars

\* C8 amended: the likes of a resource never decrease, and they change only
\* in the update step of a like call on that resource, which raises them
\* by exactly 1; no create, list or get step changes them.  The like call
\* that raised them is answered 200, or 500 when its re-fetch of the
\* document raises, and then the increment stays stored.
C8_LikesOnlyByLike ==
    [][ /\ LikesStep
        /\ \A c \in Clients :
              (pc[c] = "fetch" /\ pc'[c] # "fetch") =>
                  /\ req'.op = "like" /\ req'.id = target[c]
                  /\ resp'.status = 200 \/ StoreRaised'
                  /\ store' = store ]_vars

\* C8 witness: a resource liked twice, once by a call answered 200 and once
\* by a call answered 500, survived a later creation and a listing.
C8_Witness ==
    /\ Len(store) = 2 /\ store[1]["likes"] = 2 /\ store[2]["likes"] = 0
    /\ okLikes[1] = 1 /\ lostLikes[1] = 1
    /\ req.op = "list" /\ resp.status = 200

\* C9: a creation body whose title is missing or empty, or whose file_url
\* is missing, is answered with a 400-class status (checked with the store
\* configured; a raising store may turn the answer into 500) and inserts
\* nothing, so every stored document has a non-empty title and a file_url.
C9_RequiredFieldsValidated ==
    /\ \A i \in 1..Len(store) :
          /\ store[i]["title"] # Null /\ store[i]["title"] # <<>>
          /\ store[i]["file_url"] # Null
    /\ (req.op = "create" /\ Configured
           /\ ("title" \notin DOMAIN req.payload \/ "file_url" \notin DOMAIN req.payload
                  \/ req.payload["title"] = <<>>)) =>
          (resp.status \in 400..499 \/ StoreRaised)

\* C10 as stated: a successful like of a resource that existed when the
\* call began answers with likes exactly 1 above the value stored then.
C10_ResponseIsStartPlusOne ==
    (req.op = "like" /\ resp.status = 200 /\ req.start >= 0) =>
        resp.body["likes"] = req.start + 1

\* C10 amended: a successful like of a resource that existed when the call
\* began answers with that resource's document as stored at the re-fetch:
\* its likes are the value stored when the call began, plus 1, plus 1 for
\* every update that other like calls applied to the resource between this
\* call's begin and its re-fetch; so at least 1 more, and exactly 1 more
\* when no other like call intervenes.
C10_ResponseAtLeastStartPlusOne ==
    (req.op = "like" /\ resp.status = 200 /\ req.start >= 0) =>
        /\ resp.body["likes"] = req.start + 1 + req.others
        /\ resp.body["likes"] >= req.start + 1
        /\ resp.body["likes"] <= LikesOf(ObjectIdParse(req.id))
        /\ resp.body["id"] = ObjectIdStr(ObjectIdParse(req.id))

\* C10 witness: another like call updated the resource between this
\* call's begin and its re-fetch, and the response shows 2 more.
C10_Witness ==
    /\ req.op = "like" /\ resp.status = 200 /\ req.start >= 0
    /\ req.others = 1
    /\ resp.body["likes"] = req.start + 2

====
